---- MODULE Spec2Model ----
(***************************************************************************)
(* Model of scripts/main.py: LinkedInJobAutomation.run and the methods it  *)
(* calls.  The browser driver and the spreadsheet client are external; each *)
(* call into them is a step whose outcome the environment chooses.          *)
(***************************************************************************)
EXTENDS Integers, Sequences, FiniteSets, TLC

\* ------------------------------------------------------------- constants
MIN_SALARY_USD == 500
APPLICATION_DELAY == 5
\* random.randint(20, 30): the range MAX_APPLICATIONS_PER_DAY is drawn from
CapLow == 20
CapHigh == 30
\* len(TARGET_COUNTRIES)
NumTargetCountries == 18
\* job_cards[:10]
MaxListings == 10
LandingDelay == 2
RefreshDelay == 3
SearchDelay == 3
PageDelay == 2
EasyDelay == 2
FormDelay == 2

\* ----------------------------------------------------------------- bounds
\* The unreliable environment is explored with a scaled-down configuration:
\* NumRegions target countries, a cap drawn from MinCap..MaxCap and result
\* pages of at most MaxCards cards.  DiscCards bounds the pages of SpecDisc.
NumRegions == 2
MinCap == 1
MaxCap == 2
MaxCards == 2
DiscCards == 11

VARIABLES
    ideal,                    \* TRUE: driver and sheets never fail, real sizes
    environ,                  \* os.environ, the five variables the script reads
    MAX_APPLICATIONS_PER_DAY, \* drawn once when the module is loaded
    TARGET_COUNTRIES,         \* the ordered list of regions
    pc,                       \* position of the single thread of control
    driver,                   \* self.driver: "none" (None), "open", "quit"
    worksheet,                \* self.worksheet: "none" or "open"
    applications_count,       \* self.applications_count
    ledger,                   \* rows the worksheet has accepted, in order
    exc,                      \* the exception run() caught, "none" if none
    ci,                       \* index of `country` in the outer for loop
    jobs,                     \* `jobs` of the current country
    ji,                       \* index of `job` in the inner for loop
    attempt,                  \* the apply_to_job call in progress
    lastSearch,               \* what the driver answered to the last search
    authOutcome,              \* what happened during authentication
    calls,                    \* how often each operation has been invoked
    slept,                    \* seconds of time.sleep since the last driver.get
    lastOutcome,              \* how the apply_to_job call just returned ended
    opened                    \* the links apply_to_job has been called on

vars == <<ideal, environ, MAX_APPLICATIONS_PER_DAY, TARGET_COUNTRIES, pc,
          driver, worksheet, applications_count, ledger, exc, ci, jobs, ji,
          attempt, lastSearch, authOutcome, calls, slept, lastOutcome,
          opened>>

\* ------------------------------------------------------------ environment
EnvNames == {"GOOGLE_SHEETS_CREDS", "GOOGLE_SHEET_ID", "LINKEDIN_LI_AT",
             "LINKEDIN_JSESSIONID", "LINKEDIN_LIDC"}

\* os.environ.get gives None for an unset variable; "" is a set, empty one
EnvValues == {"unset", "empty", "set"}

\* Python truth of an os.environ.get result: None and "" are falsy
Truthy(v) == v = "set"

\* `not credentials_json or not sheet_id`
SheetsConfigMissing(env) ==
    ~Truthy(env["GOOGLE_SHEETS_CREDS"]) \/ ~Truthy(env["GOOGLE_SHEET_ID"])

\* `not all([li_at, jsessionid, lidc])`
CookiesMissing(env) ==
    ~(/\ Truthy(env["LINKEDIN_LI_AT"])
      /\ Truthy(env["LINKEDIN_JSESSIONID"])
      /\ Truthy(env["LINKEDIN_LIDC"]))

\* -------------------------------------------------------- listing pages
Unreadable == "<raises>"

\* A card of the result page: the three fields get_job_listings reads,
\* Unreadable where find_element / get_attribute raises.
Card(t, c, l) == [title |-> t, company |-> c, link |-> l]

P1 == Card("t1", "c1", "l1")
P2 == Card("t2", "c2", "l2")
GoodCards == {P1, P2}
BadCards == {Card(Unreadable, "c1", "l1"), Card("t1", Unreadable, "l1"),
             Card("t1", "c1", Unreadable)}

SeqsUpTo(S, n) == UNION {[1..k -> S] : k \in 0..n}

\* Pages the unreliable driver may show; <<>> is "no card appeared in time"
Pages == SeqsUpTo(GoodCards \cup {Card(Unreadable, "c1", "l1")}, MaxCards)

\* Pages longer than the per-region cap, with one kind of unreadable card
BigPages == UNION {SeqsUpTo({P1, b}, DiscCards) : b \in BadCards}

\* The page of the quota scenario: ten discoverable postings
\* Full pages with one posting of a second kind at position a and, unless
\* at the same position, one unreadable card at position b
MixedPages ==
    {[i \in 1..DiscCards |-> IF i = a THEN P2 ELSE IF i = b THEN bad ELSE P1] :
        a \in 1..DiscCards, b \in 1..DiscCards, bad \in BadCards}

IdealPage == [i \in 1..MaxListings |-> P1]

NoJob == Card("-", "-", "-")
NoAttempt == [job |-> NoJob, country |-> 0, state |-> "None",
              result |-> "none", countBefore |-> 0, ledgerBefore |-> <<>>,
              logCalled |-> FALSE, append |-> "none", path |-> <<>>,
              failure |-> "none", form |-> "none"]
NoSearch == [country |-> 0, getOk |-> FALSE, page |-> <<>>]
NoCalls == [get |-> 0, auth |-> 0, search |-> 0, apply |-> 0, submit |-> 0,
            log |-> 0, quit |-> 0]

Min(a, b) == IF a < b THEN a ELSE b

\* ------------------------------------------------------------- discovery
\* One card's three reads succeed (else the inner bare except skips it)
Readable(card) ==
    /\ card.title # Unreadable
    /\ card.company # Unreadable
    /\ card.link # Unreadable

\* The for loop over job_cards[:10]: cards i..n of the page, in page order
RECURSIVE ScanCards(_, _, _)
ScanCards(page, i, n) ==
    IF i > n THEN <<>>
    ELSE IF Readable(page[i])
         THEN <<page[i]>> \o ScanCards(page, i + 1, n)
         ELSE ScanCards(page, i + 1, n)

\* Seeded fault: the scan is not limited to the first ten cards
get_job_listings_unsliced(page) ==
    IF page = <<>>
    THEN [raised |-> FALSE, jobs |-> <<>>]
    ELSE [raised |-> FALSE, jobs |-> ScanCards(page, 1, Len(page))]

\* Seeded fault: the scan goes on until ten readable cards are found
get_job_listings_ten_readable(page) ==
    IF page = <<>>
    THEN [raised |-> FALSE, jobs |-> <<>>]
    ELSE LET all == ScanCards(page, 1, Len(page))
         IN  [raised |-> FALSE,
              jobs |-> SubSeq(all, 1, Min(Len(all), MaxListings))]

\* get_job_listings: the wait times out when no card is present
get_job_listings(page) ==
    IF page = <<>>
    THEN [raised |-> FALSE, jobs |-> <<>>]
    ELSE [raised |-> FALSE,
          jobs |-> ScanCards(page, 1, Min(Len(page), MaxListings))]

\* Seeded fault: no try / except around the search, a failed driver.get
\* propagates
search_jobs_in_country_unguarded(getOk, page) ==
    IF ~getOk THEN [raised |-> TRUE, jobs |-> <<>>]
    ELSE get_job_listings(page)

\* search_jobs_in_country: driver.get, then get_job_listings, all inside
\* try / except Exception: return []
search_jobs_in_country(getOk, page) ==
    IF ~getOk THEN [raised |-> FALSE, jobs |-> <<>>]
    ELSE LET r == get_job_listings(page)
         IN  IF r.raised THEN [raised |-> FALSE, jobs |-> <<>>] ELSE r

\* ---------------------------------------------------------------- ledger
Today == "dd/mm/yyyy"

\* f"${MIN_SALARY_USD}+"
SalaryText == "$" \o ToString(MIN_SALARY_USD) \o "+"

\* Seeded fault: title and company passed in the wrong order
LedgerRowSwapped(count, title, company, country, link, status) ==
    <<count + 1, Today, company, title, country, link, SalaryText, status,
      "Automated">>

\* Seeded fault: the status written in the salary column and the salary text
\* in the status column
LedgerRowStatusFirst(count, title, company, country, link, status) ==
    <<count + 1, Today, title, company, country, link, status, SalaryText,
      "Automated">>

\* The row log_application builds
LedgerRow(count, title, company, country, link, status) ==
    <<count + 1, Today, title, company, country, link, SalaryText, status,
      "Automated">>

\* Seeded fault: no try / except around append_row
log_application_unguarded(led, count, title, company, country, link, status, appendOk) ==
    [raised |-> ~appendOk,
     ledger |-> IF appendOk
                THEN Append(led, LedgerRow(count, title, company, country,
                                           link, status))
                ELSE led]

\* Seeded fault: the row is numbered from the rows the ledger holds
log_application_rowcount(led, count, title, company, country, link, status, appendOk) ==
    [raised |-> FALSE,
     ledger |-> IF appendOk
                THEN Append(led, LedgerRow(Len(led), title, company, country,
                                           link, status))
                ELSE led]

\* log_application: append_row inside try / except Exception
log_application(led, count, title, company, country, link, status, appendOk) ==
    [raised |-> FALSE,
     ledger |-> IF appendOk
                THEN Append(led, LedgerRow(count, title, company, country,
                                           link, status))
                ELSE led]

\* ------------------------------------------------------------ the methods
\* authenticate_linkedin_with_cookies: `gets` counts its driver.get calls
AuthOutcomes == {"ok", "get_raises", "add_cookie_raises", "refresh_raises",
                 "landmark_timeout"}

\* Seeded fault: the cookies are checked after the first driver.get
authenticate_get_first(env, o) ==
    IF CookiesMissing(env)
    THEN [raised |-> TRUE, gets |-> 1]
    ELSE [raised |-> o # "ok", gets |-> 1]

\* Seeded fault: the landmark timeout is printed but not re-raised
authenticate_unverified(env, o) ==
    IF CookiesMissing(env)
    THEN [raised |-> TRUE, gets |-> 0]
    ELSE [raised |-> o \notin {"ok", "landmark_timeout"}, gets |-> 1]

authenticate_linkedin_with_cookies(env, o) ==
    IF CookiesMissing(env)
    THEN [raised |-> TRUE, gets |-> 0]
    ELSE [raised |-> o # "ok", gets |-> 1]

\* The seconds authenticate_linkedin_with_cookies has slept when it ends
\* with outcome o: time.sleep(2) after driver.get, time.sleep(3) after refresh
AuthSlept(env, o) ==
    IF CookiesMissing(env) \/ o = "get_raises" THEN 0
    ELSE IF o \in {"add_cookie_raises", "refresh_raises"} THEN LandingDelay
    ELSE LandingDelay + RefreshDelay

\* setup_google_sheets: the environment check, then json.loads, authorize
\* and open_by_key, any of which may raise
setup_google_sheets(env, o) ==
    IF SheetsConfigMissing(env)
    THEN [raised |-> TRUE, worksheet |-> "none"]
    ELSE IF o = "ok" THEN [raised |-> FALSE, worksheet |-> "open"]
         ELSE [raised |-> TRUE, worksheet |-> "none"]

\* handle_application_form: every failure is swallowed
FormOutcomes == {"ok", "lookup_raises", "no_inputs", "input_rejects"}

\* Seeded fault: no outer try / except, a failed find_elements propagates
handle_application_form_unguarded(o) == [raised |-> o = "lookup_raises"]

handle_application_form(o) ==
    IF o = "lookup_raises" THEN [raised |-> FALSE]
    ELSE IF o = "no_inputs" THEN [raised |-> FALSE]
    ELSE IF o = "input_rejects" THEN [raised |-> FALSE]
    ELSE [raised |-> FALSE]

\* Seeded fault: `>` in place of `>=`
QuotaReachedLate(count, cap) == count > cap

\* Seeded fault: the quota is never tested
QuotaNeverReached(count, cap) == FALSE

\* `self.applications_count >= MAX_APPLICATIONS_PER_DAY`
QuotaReached(count, cap) == count >= cap

\* Seeded fault: the counter is incremented before log_application is called
apply_to_job_body_incr_first ==
    <<"apply_get", "apply_easy", "apply_form", "apply_submit", "apply_incr",
      "apply_log", "apply_return">>

\* Seeded fault: the counter is incremented before the submit control is
\* looked up
apply_to_job_body_count_attempts ==
    <<"apply_get", "apply_easy", "apply_form", "apply_incr", "apply_submit",
      "apply_log", "apply_return">>

\* Seeded fault: the counter is never incremented
apply_to_job_body_no_incr ==
    <<"apply_get", "apply_easy", "apply_form", "apply_submit", "apply_log",
      "apply_return">>

\* The statements of apply_to_job's try block, in source order
apply_to_job_body ==
    <<"apply_get", "apply_easy", "apply_form", "apply_submit", "apply_log",
      "apply_incr", "apply_return">>

\* The statement after `label` in apply_to_job
Following(label) ==
    LET i == CHOOSE k \in 1..Len(apply_to_job_body) :
                 apply_to_job_body[k] = label
    IN  apply_to_job_body[i + 1]

\* `return True` is the statement reached by falling off the body
Advance(att, label) ==
    IF Following(label) = "apply_return"
    THEN [att EXCEPT !.result = "True"]
    ELSE att

\* except Exception in apply_to_job: return False
Fail(att) == [att EXCEPT !.state = "Failed", !.result = "False"]

\* The attempt enters state st of the application state machine
Reach(att, st) == [att EXCEPT !.state = st, !.path = Append(@, st)]

\* The except branch of apply_to_job, taken when statement `label` met
\* outcome o
FailWith(att, label, o) ==
    [Reach(Fail(att), "Failed") EXCEPT !.failure = label \o ":" \o o]

Bump(c, f) == [c EXCEPT ![f] = @ + 1]

\* Seeded fault: the outer loop runs over the list from its end
CountryAtReversed(countries, i) == countries[Len(countries) + 1 - i]

\* `country` in the i-th iteration of `for country in TARGET_COUNTRIES:`
CountryAt(countries, i) == countries[i]

\* Outcomes the environment may choose: the ideal one never fails
Outcomes(S) == IF ideal THEN {"ok"} ELSE S

\* ------------------------------------------------------------------ Init
\* __init__, and the module-level configuration
Init ==
    /\ ideal \in BOOLEAN
    /\ IF ideal
       THEN /\ environ = [n \in EnvNames |-> "set"]
            /\ MAX_APPLICATIONS_PER_DAY \in CapLow..CapHigh
            /\ TARGET_COUNTRIES = [i \in 1..NumTargetCountries |-> i]
       ELSE /\ environ \in [EnvNames -> EnvValues]
            /\ MAX_APPLICATIONS_PER_DAY \in MinCap..MaxCap
            /\ TARGET_COUNTRIES = [i \in 1..NumRegions |-> i]
    /\ pc = "init_driver"
    /\ driver = "none"
    /\ worksheet = "none"
    /\ applications_count = 0
    /\ ledger = <<>>
    /\ exc = "none"
    /\ ci = 0
    /\ jobs = <<>>
    /\ ji = 0
    /\ attempt = NoAttempt
    /\ lastSearch = NoSearch
    /\ authOutcome = "none"
    /\ calls = NoCalls
    /\ slept = 0
    /\ lastOutcome = "none"
    /\ opened = {}

\* --------------------------------------------------------------- actions
\* run(): self.initialize_driver()
InitializeDriver(o) ==
    /\ pc = "init_driver"
    /\ driver' = IF o = "chrome_raises" THEN "none" ELSE "open"
    /\ IF o = "ok"
       THEN pc' = "setup_sheets" /\ exc' = exc
       ELSE pc' = "except" /\ exc' = "initialize_driver"
    /\ UNCHANGED <<ideal, environ, MAX_APPLICATIONS_PER_DAY, TARGET_COUNTRIES,
                   slept, lastOutcome, opened,
                   authOutcome,
                   worksheet, applications_count, ledger, ci, jobs, ji,
                   attempt, lastSearch, calls>>

\* run(): self.setup_google_sheets()
SetupGoogleSheets(o) ==
    /\ pc = "setup_sheets"
    /\ LET r == setup_google_sheets(environ, o)
       IN  /\ worksheet' = r.worksheet
           /\ IF r.raised
              THEN pc' = "except" /\ exc' = "setup_google_sheets"
              ELSE pc' = "authenticate" /\ exc' = exc
    /\ UNCHANGED <<ideal, environ, MAX_APPLICATIONS_PER_DAY, TARGET_COUNTRIES,
                   slept, lastOutcome, opened,
                   authOutcome,
                   driver, applications_count, ledger, ci, jobs, ji, attempt,
                   lastSearch, calls>>

\* run(): self.authenticate_linkedin_with_cookies()
Authenticate(o) ==
    /\ pc = "authenticate"
    /\ LET r == authenticate_linkedin_with_cookies(environ, o)
       IN  /\ calls' = [calls EXCEPT !.auth = @ + 1, !.get = @ + r.gets]
           /\ slept' = AuthSlept(environ, o)
           /\ authOutcome' = IF CookiesMissing(environ)
                             THEN "missing_cookies" ELSE o
           /\ IF r.raised
              THEN pc' = "except" /\ exc' = "authenticate_linkedin_with_cookies"
              ELSE pc' = "for_country" /\ exc' = exc
    /\ UNCHANGED <<ideal, environ, MAX_APPLICATIONS_PER_DAY, TARGET_COUNTRIES,
                   lastOutcome, opened,
                   driver, worksheet, applications_count, ledger, ci, jobs,
                   ji, attempt, lastSearch>>

\* run(): `for country in TARGET_COUNTRIES:` and the quota test under it
ForCountry ==
    /\ pc = "for_country"
    /\ IF ci = Len(TARGET_COUNTRIES)
       THEN pc' = "completed" /\ ci' = ci
       ELSE /\ ci' = ci + 1
            /\ pc' = IF QuotaReached(applications_count,
                                     MAX_APPLICATIONS_PER_DAY)
                     THEN "completed" ELSE "search"
    /\ UNCHANGED <<ideal, environ, MAX_APPLICATIONS_PER_DAY, TARGET_COUNTRIES,
                   slept, lastOutcome, opened,
                   authOutcome,
                   driver, worksheet, applications_count, ledger, exc, jobs,
                   ji, attempt, lastSearch, calls>>

\* run(): jobs = self.search_jobs_in_country(country)
SearchJobsInCountry(getOk, page) ==
    /\ pc = "search"
    /\ getOk \/ page = <<>>
    /\ lastSearch' = [country |-> CountryAt(TARGET_COUNTRIES, ci),
                      getOk |-> getOk,
                      page |-> page]
    /\ calls' = [calls EXCEPT !.search = @ + 1, !.get = @ + 1]
    /\ slept' = IF getOk THEN SearchDelay ELSE 0
    /\ LET r == search_jobs_in_country(getOk, page)
       IN  IF r.raised
           THEN /\ pc' = "except" /\ exc' = "search_jobs_in_country"
                /\ UNCHANGED <<jobs, ji>>
           ELSE /\ pc' = "for_job" /\ exc' = exc
                /\ jobs' = r.jobs
                /\ ji' = 0
    /\ UNCHANGED <<ideal, environ, MAX_APPLICATIONS_PER_DAY, TARGET_COUNTRIES,
                   lastOutcome, opened,
                   authOutcome,
                   driver, worksheet, applications_count, ledger, ci, attempt>>

\* run(): `for job in jobs:`, the quota test under it, and the call of
\* apply_to_job
ForJob ==
    /\ pc = "for_job"
    /\ lastOutcome' = "none"
    /\ IF ji = Len(jobs)
       THEN /\ pc' = "for_country"
            /\ UNCHANGED <<ji, attempt, calls>>
       ELSE /\ ji' = ji + 1
            /\ IF QuotaReached(applications_count, MAX_APPLICATIONS_PER_DAY)
               THEN /\ pc' = "for_country"
                    /\ UNCHANGED <<attempt, calls>>
               ELSE /\ pc' = "apply_get"
                    /\ calls' = Bump(calls, "apply")
                    /\ attempt' = [job |-> jobs[ji + 1],
                                   country |-> CountryAt(TARGET_COUNTRIES, ci),
                                   state |-> "Discovered",
                                   result |-> "none",
                                   countBefore |-> applications_count,
                                   ledgerBefore |-> ledger,
                                   logCalled |-> FALSE,
                                   append |-> "none",
                                   path |-> <<"Discovered">>,
                                   failure |-> "none",
                                   form |-> "none"]
    /\ UNCHANGED <<ideal, environ, MAX_APPLICATIONS_PER_DAY, TARGET_COUNTRIES,
                   slept, opened,
                   authOutcome,
                   driver, worksheet, applications_count, ledger, exc, ci,
                   jobs, lastSearch>>

\* apply_to_job: self.driver.get(job_url)
ApplyGet(o) ==
    /\ pc = "apply_get"
    /\ calls' = Bump(calls, "get")
    /\ opened' = opened \cup {attempt.job.link}
    /\ IF o = "ok"
       THEN /\ attempt' = Reach(attempt, "Opened")
            /\ slept' = PageDelay
            /\ pc' = Following(pc)
       ELSE /\ attempt' = FailWith(attempt, pc, o)
            /\ slept' = 0
            /\ pc' = "apply_return"
    /\ UNCHANGED <<ideal, environ, MAX_APPLICATIONS_PER_DAY, TARGET_COUNTRIES,
                   lastOutcome,
                   authOutcome,
                   driver, worksheet, applications_count, ledger, exc, ci,
                   jobs, ji, lastSearch>>

\* apply_to_job: wait for the Easy Apply button, click it
EasyOutcomes == {"ok", "timeout", "click_raises"}

ApplyEasy(o) ==
    /\ pc = "apply_easy"
    /\ IF o = "ok"
       THEN /\ attempt' = attempt
            /\ slept' = slept + EasyDelay
            /\ pc' = Following(pc)
       ELSE /\ attempt' = FailWith(attempt, pc, o)
            /\ slept' = slept
            /\ pc' = "apply_return"
    /\ UNCHANGED <<ideal, environ, MAX_APPLICATIONS_PER_DAY, TARGET_COUNTRIES,
                   lastOutcome, opened,
                   authOutcome,
                   driver, worksheet, applications_count, ledger, exc, ci,
                   jobs, ji, lastSearch, calls>>

\* apply_to_job: self.handle_application_form()
ApplyForm(o) ==
    /\ pc = "apply_form"
    /\ slept' = slept + FormDelay
    /\ IF handle_application_form(o).raised
       THEN /\ attempt' = FailWith([attempt EXCEPT !.form = o], pc, o)
            /\ pc' = "apply_return"
       ELSE /\ attempt' = Reach([attempt EXCEPT !.form = o], "FormHandled")
            /\ pc' = Following(pc)
    /\ UNCHANGED <<ideal, environ, MAX_APPLICATIONS_PER_DAY, TARGET_COUNTRIES,
                   lastOutcome, opened,
                   authOutcome,
                   driver, worksheet, applications_count, ledger, exc, ci,
                   jobs, ji, lastSearch, calls>>

\* apply_to_job: find_elements(...)[-1], then submit_button.click()
SubmitOutcomes == {"ok", "find_raises", "none_found", "click_raises"}

ApplySubmit(o) ==
    /\ pc = "apply_submit"
    /\ IF o = "ok"
       THEN /\ attempt' = Reach(attempt, "Submitted")
            /\ calls' = Bump(calls, "submit")
            /\ pc' = Following(pc)
       ELSE /\ attempt' = FailWith(attempt, pc, o)
            /\ calls' = calls
            /\ pc' = "apply_return"
    /\ UNCHANGED <<ideal, environ, MAX_APPLICATIONS_PER_DAY, TARGET_COUNTRIES,
                   slept, lastOutcome, opened,
                   authOutcome,
                   driver, worksheet, applications_count, ledger, exc, ci,
                   jobs, ji, lastSearch>>

\* apply_to_job: self.log_application(job_title, company, country, job_url,
\* "Postulado")
ApplyLog(o) ==
    /\ pc = "apply_log"
    /\ calls' = Bump(calls, "log")
    /\ LET r == log_application(ledger, applications_count,
                                attempt.job.title, attempt.job.company,
                                attempt.country, attempt.job.link,
                                "Postulado", o = "ok")
           a == [attempt EXCEPT !.logCalled = TRUE,
                                !.append = IF o = "ok" THEN "ok" ELSE "failed"]
       IN  /\ ledger' = r.ledger
           /\ IF r.raised
              THEN /\ attempt' = FailWith(a, pc, o)
                   /\ pc' = "apply_return"
              ELSE /\ attempt' = Advance(a, pc)
                   /\ pc' = Following(pc)
    /\ UNCHANGED <<ideal, environ, MAX_APPLICATIONS_PER_DAY, TARGET_COUNTRIES,
                   slept, lastOutcome, opened,
                   authOutcome,
                   driver, worksheet, applications_count, exc, ci, jobs, ji,
                   lastSearch>>

\* apply_to_job: self.applications_count += 1
ApplyIncr ==
    /\ pc = "apply_incr"
    /\ applications_count' = applications_count + 1
    /\ attempt' = Advance(attempt, pc)
    /\ pc' = Following(pc)
    /\ UNCHANGED <<ideal, environ, MAX_APPLICATIONS_PER_DAY, TARGET_COUNTRIES,
                   slept, lastOutcome, opened,
                   authOutcome,
                   driver, worksheet, ledger, exc, ci, jobs, ji, lastSearch,
                   calls>>

\* Seeded fault: a failed attempt leaves the inner loop (break) instead of
\* going on with the next posting
AfterApplyBreaks ==
    /\ pc = "apply_return"
    /\ pc' = IF attempt.result = "True" THEN "sleep" ELSE "for_country"
    /\ attempt' = NoAttempt
    /\ lastOutcome' = IF attempt.result = "True" THEN "True"
                      ELSE attempt.failure
    /\ UNCHANGED <<ideal, environ, MAX_APPLICATIONS_PER_DAY, TARGET_COUNTRIES,
                   slept, opened,
                   authOutcome,
                   driver, worksheet, applications_count, ledger, exc, ci,
                   jobs, ji, lastSearch, calls>>

\* Seeded fault: a failed attempt is started again on the same posting
AfterApplyRetries ==
    /\ pc = "apply_return"
    /\ pc' = IF attempt.result = "True" THEN "sleep" ELSE "apply_get"
    /\ attempt' = IF attempt.result = "True" THEN NoAttempt
                  ELSE [attempt EXCEPT !.state = "Discovered",
                                       !.result = "none",
                                       !.failure = "none",
                                       !.path = <<"Discovered">>]
    /\ lastOutcome' = IF attempt.result = "True" THEN "True"
                      ELSE attempt.failure
    /\ UNCHANGED <<ideal, environ, MAX_APPLICATIONS_PER_DAY, TARGET_COUNTRIES,
                   slept, opened,
                   authOutcome,
                   driver, worksheet, applications_count, ledger, exc, ci,
                   jobs, ji, lastSearch, calls>>

\* Seeded fault: the loop goes on without time.sleep(APPLICATION_DELAY)
AfterApplyNoDelay ==
    /\ pc = "apply_return"
    /\ pc' = "for_job"
    /\ attempt' = NoAttempt
    /\ lastOutcome' = IF attempt.result = "True" THEN "True"
                      ELSE attempt.failure
    /\ UNCHANGED <<ideal, environ, MAX_APPLICATIONS_PER_DAY, TARGET_COUNTRIES,
                   slept, opened,
                   authOutcome,
                   driver, worksheet, applications_count, ledger, exc, ci,
                   jobs, ji, lastSearch, calls>>

\* run(): `if self.apply_to_job(...):` takes the returned value
AfterApply ==
    /\ pc = "apply_return"
    /\ pc' = IF attempt.result = "True" THEN "sleep" ELSE "for_job"
    /\ attempt' = NoAttempt
    /\ lastOutcome' = IF attempt.result = "True" THEN "True"
                      ELSE attempt.failure
    /\ UNCHANGED <<ideal, environ, MAX_APPLICATIONS_PER_DAY, TARGET_COUNTRIES,
                   slept, opened,
                   authOutcome,
                   driver, worksheet, applications_count, ledger, exc, ci,
                   jobs, ji, lastSearch, calls>>

\* run(): time.sleep(APPLICATION_DELAY)
Sleep ==
    /\ pc = "sleep"
    /\ slept' = slept + APPLICATION_DELAY
    /\ pc' = "for_job"
    /\ UNCHANGED <<ideal, environ, MAX_APPLICATIONS_PER_DAY, TARGET_COUNTRIES,
                   lastOutcome, opened,
                   authOutcome,
                   driver, worksheet, applications_count, ledger, exc, ci,
                   jobs, ji, attempt, lastSearch, calls>>

\* run(): print("Completed! ...") after the loop
PrintCompleted ==
    /\ pc = "completed"
    /\ pc' = "finally"
    /\ UNCHANGED <<ideal, environ, MAX_APPLICATIONS_PER_DAY, TARGET_COUNTRIES,
                   slept, lastOutcome, opened,
                   authOutcome,
                   driver, worksheet, applications_count, ledger, exc, ci,
                   jobs, ji, attempt, lastSearch, calls>>

\* run(): except Exception as e: print
PrintError ==
    /\ pc = "except"
    /\ pc' = "finally"
    /\ UNCHANGED <<ideal, environ, MAX_APPLICATIONS_PER_DAY, TARGET_COUNTRIES,
                   slept, lastOutcome, opened,
                   authOutcome,
                   driver, worksheet, applications_count, ledger, exc, ci,
                   jobs, ji, attempt, lastSearch, calls>>

\* Seeded fault: no finally clause, the driver is left open
FinallyNoQuit ==
    /\ pc = "finally"
    /\ pc' = "done"
    /\ UNCHANGED <<ideal, environ, MAX_APPLICATIONS_PER_DAY, TARGET_COUNTRIES,
                   slept, lastOutcome, opened,
                   authOutcome, driver, calls,
                   worksheet, applications_count, ledger, exc, ci, jobs, ji,
                   attempt, lastSearch>>

\* run(): finally: if self.driver: self.driver.quit()
Finally ==
    /\ pc = "finally"
    /\ pc' = "done"
    /\ IF driver # "none"
       THEN driver' = "quit" /\ calls' = Bump(calls, "quit")
       ELSE UNCHANGED <<driver, calls>>
    /\ UNCHANGED <<ideal, environ, MAX_APPLICATIONS_PER_DAY, TARGET_COUNTRIES,
                   slept, lastOutcome, opened,
                   authOutcome,
                   worksheet, applications_count, ledger, exc, ci, jobs, ji,
                   attempt, lastSearch>>

\* ---------------------------------------------------------- specifications
DriverOutcomes == {"ok", "chrome_raises", "timeout_raises"}

\* The steps of run() up to the for loop, and its exits
Startup ==
    \/ \E o \in Outcomes(DriverOutcomes) : InitializeDriver(o)
    \/ \E o \in Outcomes({"ok", "raises"}) : SetupGoogleSheets(o)
    \/ \E o \in Outcomes(AuthOutcomes) : Authenticate(o)
    \/ ForCountry

\* The exception handler and the finally clause of run()
Exits ==
    \/ PrintError
    \/ Finally

Next ==
    \/ Startup
    \/ /\ pc = "search"
       /\ \E getOk \in {o = "ok" : o \in Outcomes({"ok", "raises"})},
             page \in IF ideal THEN {IdealPage} ELSE Pages :
             SearchJobsInCountry(getOk, page)
    \/ ForJob
    \/ \E o \in Outcomes({"ok", "raises"}) : ApplyGet(o)
    \/ \E o \in Outcomes(EasyOutcomes) : ApplyEasy(o)
    \/ \E o \in Outcomes(FormOutcomes) : ApplyForm(o)
    \/ \E o \in Outcomes(SubmitOutcomes) : ApplySubmit(o)
    \/ \E o \in Outcomes({"ok", "raises"}) : ApplyLog(o)
    \/ ApplyIncr
    \/ AfterApply
    \/ Sleep
    \/ PrintCompleted
    \/ Exits

Spec == Init /\ [][Next]_vars

\* The run up to the return of its first discovery call, over result pages
\* longer than the per-region cap
InitDisc == Init /\ ~ideal

NextDisc ==
    \/ Startup
    \/ /\ pc = "search"
       /\ \E getOk \in BOOLEAN, page \in BigPages \cup MixedPages :
             SearchJobsInCountry(getOk, page)
    \/ Exits

SpecDisc == InitDisc /\ [][NextDisc]_vars

\* The single thread runs on while it has a statement to execute: every
\* driver and sheets call returns or raises within its timeout
SpecLive == Spec /\ WF_vars(Next)

\* ------------------------------------------------------------ properties
\* The rows appended to the ledger since the current attempt began
Appended == SubSeq(ledger, Len(attempt.ledgerBefore) + 1, Len(ledger))

\* The rows present when the current attempt began are still there, in place
PrefixKept ==
    /\ Len(attempt.ledgerBefore) <= Len(ledger)
    /\ SubSeq(ledger, 1, Len(attempt.ledgerBefore)) = attempt.ledgerBefore

\* Title, company and link of a ledger row are those of the posting
RowMatches(row, job) ==
    /\ row[3] = job.title
    /\ row[4] = job.company
    /\ row[6] = job.link

\* C1: in every reachable state the count of successful applications is at
\* most the daily cap drawn for the run.
C1_CountWithinCap == applications_count <= MAX_APPLICATIONS_PER_DAY

\* An application has just brought the count to the cap while postings of
\* the current list remain.
C1_Witness ==
    /\ pc = "apply_return"
    /\ attempt.result = "True"
    /\ applications_count = MAX_APPLICATIONS_PER_DAY
    /\ ji < Len(jobs)

\* C2 as stated: an attempt that returns True has appended exactly one row,
\* with the posting's title, company and link, whatever append_row did.
C2_ExactlyOneRow ==
    attempt.result = "True" =>
        /\ PrefixKept
        /\ Len(Appended) = 1
        /\ RowMatches(Appended[1], attempt.job)

\* C2 amended: an attempt that returns True has appended at most one row,
\* which carries the posting's title, company and link; exactly one when
\* append_row returned, none when append_row raised.
C2_AtMostOneRow ==
    attempt.result = "True" =>
        /\ PrefixKept
        /\ Len(Appended) = (IF attempt.append = "ok" THEN 1 ELSE 0)
        /\ \A i \in 1..Len(Appended) : RowMatches(Appended[i], attempt.job)

\* A second posting of the run has been submitted and its row accepted.
C2_Witness ==
    /\ attempt.result = "True"
    /\ attempt.append = "ok"
    /\ attempt.job = P2
    /\ Len(attempt.ledgerBefore) >= 1

\* C3 as stated: when log_application is invoked for a submitted attempt the
\* counter has already been incremented for it.
C3_IncrementBeforeLog ==
    pc = "apply_log" => applications_count = attempt.countBefore + 1

\* C3 amended: for a submitted attempt the counter changes only after
\* log_application has been invoked and has returned.
C3_LogBeforeIncrement ==
    attempt.state = "Submitted" =>
        /\ applications_count # attempt.countBefore => attempt.logCalled
        /\ applications_count \in
               {attempt.countBefore, attempt.countBefore + 1}

\* log_application has returned and the increment is still to come.
C3_Witness ==
    /\ attempt.state = "Submitted"
    /\ attempt.logCalled
    /\ applications_count = attempt.countBefore

\* C4: an attempt that ends Failed has changed neither the counter nor the
\* ledger.
C4_FailedLeavesState ==
    attempt.state = "Failed" =>
        /\ applications_count = attempt.countBefore
        /\ ledger = attempt.ledgerBefore
        /\ ~attempt.logCalled

\* An attempt has failed after an earlier one was submitted and recorded.
C4_Witness ==
    /\ pc = "apply_return"
    /\ attempt.state = "Failed"
    /\ attempt.result = "False"
    /\ applications_count >= 1
    /\ Len(ledger) >= 1

\* With the count at the cap no step starts an attempt or a discovery call
C5_NoStartAtCap ==
    applications_count >= MAX_APPLICATIONS_PER_DAY =>
        /\ calls'.apply = calls.apply
        /\ calls'.search = calls.search

\* 18 regions of ten postings that all succeed, cap 25: the run ends with
\* 25 attempts, all submitted, the last discovery being that of region 3,
\* whose sixth posting the loop fetched and left unattempted
C5_Scenario ==
    (ideal /\ MAX_APPLICATIONS_PER_DAY = 25 /\ pc = "done") =>
        /\ applications_count = 25
        /\ calls.apply = 25
        /\ calls.submit = 25
        /\ calls.search = 3
        /\ lastSearch.country = 3
        /\ Len(jobs) = 10
        /\ ji = 6

\* C5: once the count equals the cap no further attempt and no further
\* discovery call starts; in the scenario of 18 regions of 10 succeeding
\* postings and cap 25 the run stops inside region 3 after 25 attempts.
C5_StopsAtCap == [][C5_NoStartAtCap]_vars /\ []C5_Scenario

\* The scenario run has ended.
C5_Witness ==
    /\ ideal
    /\ MAX_APPLICATIONS_PER_DAY = 25
    /\ pc = "done"
    /\ calls.apply = 25

\* C6: a failed ledger append is absorbed: the attempt still returns True
\* with the counter incremented, and when the run has left its loop the
\* counter equals the number of attempts whose submit control was clicked.
C6_CountEqualsSubmitted ==
    /\ pc \in {"completed", "finally", "done"} =>
           applications_count = calls.submit
    /\ (attempt.append = "failed" /\ attempt.result # "none") =>
           /\ attempt.result = "True"
           /\ applications_count = attempt.countBefore + 1
           /\ exc = "none"

\* The run has ended with two submissions, one of whose rows was refused.
C6_Witness ==
    /\ pc = "done"
    /\ applications_count = 2
    /\ calls.submit = 2
    /\ Len(ledger) = 1

\* C7: with a cookie or a ledger setting missing, the run is aborted with no
\* driver.get, no discovery call, no application attempt and no ledger row,
\* and with missing ledger settings authentication is not even entered.
C7_ConfigAbortsBeforeBrowsing ==
    (SheetsConfigMissing(environ) \/ CookiesMissing(environ)) =>
        /\ calls.get = 0
        /\ calls.search = 0
        /\ calls.apply = 0
        /\ ledger = <<>>
        /\ applications_count = 0
        /\ SheetsConfigMissing(environ) => calls.auth = 0
        /\ pc \in {"init_driver", "setup_sheets", "authenticate", "except",
                   "finally", "done"}
        /\ pc \in {"finally", "done"} =>
               exc \in {"initialize_driver", "setup_google_sheets",
                        "authenticate_linkedin_with_cookies"}

\* One cookie of the triple is missing, the rest of the configuration is
\* there, and the run has ended in authentication.
C7_Witness ==
    /\ environ = [n \in EnvNames |->
                     IF n = "LINKEDIN_LIDC" THEN "unset" ELSE "set"]
    /\ authOutcome = "missing_cookies"
    /\ exc = "authenticate_linkedin_with_cookies"
    /\ pc = "done"

\* C8: authentication is entered at most once, every discovery call comes
\* after its one successful completion, and an authentication that fails
\* (the landmark is not found, among others) ends the run with no discovery
\* call, no attempt and no ledger row.
C8_AuthenticateOnceFirst ==
    /\ calls.auth <= 1
    /\ calls.search > 0 => (calls.auth = 1 /\ authOutcome = "ok")
    /\ pc \in {"for_country", "search", "for_job", "completed"} =>
           (calls.auth = 1 /\ authOutcome = "ok")
    /\ authOutcome \notin {"none", "ok"} =>
           /\ calls.auth = 1
           /\ pc \in {"except", "finally", "done"}
           /\ exc = "authenticate_linkedin_with_cookies"
           /\ calls.search = 0
           /\ calls.apply = 0
           /\ ledger = <<>>

\* The landmark was not found and the run has ended.
C8_Witness ==
    /\ authOutcome = "landmark_timeout"
    /\ pc = "done"
    /\ calls.auth = 1

\* C9: discovery never raises into run(); what it returns has at most ten
\* postings, and none when driver.get failed or no card appeared in time.
C9_DiscoveryNeverRaises ==
    /\ exc # "search_jobs_in_country"
    /\ calls.search > 0 =>
           /\ Len(jobs) <= MaxListings
           /\ (~lastSearch.getOk \/ lastSearch.page = <<>>) => jobs = <<>>

\* A page of more than ten cards has given exactly ten postings.
C9_Witness ==
    /\ pc = "for_job"
    /\ Len(lastSearch.page) > MaxListings
    /\ Len(jobs) = MaxListings

\* Once the loop has been entered nothing aborts the run, and the loop is
\* left only with every region visited or the quota reached
LoopRunsToItsEnd ==
    /\ calls.search > 0 => exc = "none"
    /\ exc # "none" =>
           (calls.search = 0 /\ calls.apply = 0 /\ pc # "completed")
    /\ pc = "completed" =>
           \/ calls.search = Len(TARGET_COUNTRIES)
           \/ applications_count >= MAX_APPLICATIONS_PER_DAY

\* C10 as stated: only an authentication failure or a Google-Sheets-setup
\* failure aborts the run, and the loop runs to its end.
C10_OnlyAuthOrSheetsAbort ==
    /\ exc \in {"none", "setup_google_sheets",
                "authenticate_linkedin_with_cookies"}
    /\ LoopRunsToItsEnd

\* C10 amended: only a failure of initialize_driver, of setup_google_sheets
\* or of authentication aborts the run, and the loop runs to its end.
C10_OnlyStartupAborts ==
    /\ exc \in {"none", "initialize_driver", "setup_google_sheets",
                "authenticate_linkedin_with_cookies"}
    /\ LoopRunsToItsEnd

\* Every region was visited although the last discovery failed and a ledger
\* row was refused.
C10_Witness ==
    /\ pc = "completed"
    /\ calls.search = Len(TARGET_COUNTRIES)
    /\ ~lastSearch.getOk
    /\ Len(ledger) < applications_count
    /\ applications_count < MAX_APPLICATIONS_PER_DAY

\* The attempt in progress failed because the wait for the Easy Apply button
\* timed out
NoEasyApply == attempt.failure = "apply_easy:timeout"

\* Such an attempt has gone Discovered -> Opened -> Failed and returns False
C11_FailedPath ==
    NoEasyApply =>
        /\ attempt.path = <<"Discovered", "Opened", "Failed">>
        /\ attempt.result = "False"
        /\ pc = "apply_return"

\* From the return of such an attempt the loop goes back to its head with
\* the list, the index and the counter as they were; at the head, with
\* quota left, the posting fetched is the one after the last fetched
C11_NextPosting ==
    /\ (pc = "apply_return" /\ NoEasyApply) =>
           /\ pc' = "for_job"
           /\ lastOutcome' = attempt.failure
           /\ UNCHANGED <<jobs, ji, ci, applications_count, ledger>>
    /\ (/\ pc = "for_job"
        /\ ji < Len(jobs)
        /\ applications_count < MAX_APPLICATIONS_PER_DAY) =>
           /\ pc' = "apply_get"
           /\ ji' = ji + 1
           /\ attempt'.job = jobs[ji + 1]
           /\ attempt'.path = <<"Discovered">>
           /\ UNCHANGED <<jobs, ci>>

\* C11: when a posting has no Easy Apply control its attempt goes
\* Discovered -> Opened -> Failed, and the orchestrator goes on to the next
\* posting of the same region's list, if quota remains, without repeating
\* the failed one.
C11_NoEasyApplyMovesOn == []C11_FailedPath /\ [][C11_NextPosting]_vars

\* The first posting of a list had no Easy Apply control, nothing was
\* written, and the loop is at its head with quota and a second posting left
C11_Witness ==
    /\ pc = "for_job"
    /\ lastOutcome = "apply_easy:timeout"
    /\ ji = 1
    /\ Len(jobs) > 1
    /\ applications_count < MAX_APPLICATIONS_PER_DAY
    /\ ledger = <<>>

\* The paths an attempt can have taken through the application state machine
AttemptPaths ==
    {<<>>, <<"Discovered">>,
     <<"Discovered", "Failed">>,
     <<"Discovered", "Opened">>,
     <<"Discovered", "Opened", "Failed">>,
     <<"Discovered", "Opened", "FormHandled">>,
     <<"Discovered", "Opened", "FormHandled", "Failed">>,
     <<"Discovered", "Opened", "FormHandled", "Submitted">>}

\* A failed attempt only returns to the loop; a pass is begun only by the
\* loop taking the next index of the list, on the listing at that index
C12_NoRetry ==
    /\ attempt.state = "Failed" =>
           /\ attempt' = NoAttempt
           /\ pc' = "for_job"
           /\ UNCHANGED <<jobs, ji, opened, calls>>
    /\ attempt'.state = "Discovered" =>
           /\ pc = "for_job"
           /\ ji' = ji + 1
           /\ attempt'.job = jobs[ji']
           /\ calls'.apply = calls.apply + 1
    /\ opened' # opened \/ calls'.get = calls.get + 1 =>
           \/ pc \in {"authenticate", "search"}
           \/ pc = "apply_get" /\ attempt.path = <<"Discovered">>

\* Every link receives at most one pass per run: no pass begins on a link
\* that was opened before
C12_OnePassPerLink == pc = "apply_get" => attempt.job.link \notin opened

\* C12 (amended): no failed transition is retried within an attempt, and
\* each listing a discovery call returned receives at most one pass through
\* the state machine; listings are not deduplicated, so a posting returned
\* more than once receives one pass per occurrence.
C12_OnePassPerListing == [](attempt.path \in AttemptPaths) /\ [][C12_NoRetry]_vars

\* A pass begins in the second region on a link the first region's pass
\* already opened
C12_Witness ==
    /\ pc = "apply_get"
    /\ attempt.country = 2
    /\ ji = 1
    /\ attempt.job.link \in opened
    /\ calls.apply = 2

\* The sequence number of a ledger row: its first field
SeqNo(row) == row[1]

AttemptDelays == PageDelay + EasyDelay + FormDelay

\* Each fixed delay follows the page load or the click it belongs to
C14_DelaysInPlace ==
    /\ pc = "for_job" /\ ji = 0 /\ lastSearch.getOk => slept = SearchDelay
    /\ pc = "for_job" /\ ji = 0 /\ ~lastSearch.getOk => slept = 0
    /\ pc = "apply_easy" => slept = PageDelay
    /\ pc = "apply_form" => slept = PageDelay + EasyDelay
    /\ pc \in {"apply_submit", "apply_log", "apply_incr"} =>
           slept = AttemptDelays
    /\ pc = "for_job" /\ lastOutcome = "True" =>
           slept = AttemptDelays + APPLICATION_DELAY
    /\ pc = "for_job" /\ lastOutcome \notin {"none", "True"} =>
           slept < AttemptDelays + APPLICATION_DELAY
    /\ pc = "sleep" => lastOutcome = "True"
    /\ APPLICATION_DELAY > SearchDelay /\ APPLICATION_DELAY > PageDelay

\* An attempt that returned True is followed at once by the longer delay,
\* and no attempt or discovery call starts before it has elapsed
C14_DelayAfterSuccess ==
    /\ pc = "apply_return" /\ attempt.result = "True" => pc' = "sleep"
    /\ pc = "sleep" =>
           /\ slept' = slept + APPLICATION_DELAY
           /\ pc' = "for_job"
           /\ calls' = calls
    /\ calls'.apply # calls.apply \/ calls'.search # calls.search =>
           pc \in {"for_job", "search"}

\* C14: a delay precedes each discovery call and each application attempt:
\* whenever one is about to start, the thread has slept since the last
\* page load
C14_DelayBeforeEach == pc \in {"search", "apply_get"} => slept > 0

\* C14 (amended): the fixed delays follow the page loads and clicks inside
\* discovery and inside an attempt, not the calls; after every successful
\* submission the longer delay APPLICATION_DELAY elapses before the next
\* attempt or discovery call starts.
C14_DelaysAfterLoads == []C14_DelaysInPlace /\ [][C14_DelayAfterSuccess]_vars

\* A submission succeeded, the longer delay has elapsed and the next posting
\* of the list is about to be attempted
C14_Witness ==
    /\ pc = "for_job"
    /\ lastOutcome = "True"
    /\ slept = AttemptDelays + APPLICATION_DELAY
    /\ ji < Len(jobs)
    /\ applications_count < MAX_APPLICATIONS_PER_DAY

\* The nine fields of a row, in order, for posting job found for region
\* country and numbered n
NineFields(n, job, country) ==
    <<n, Today, job.title, job.company, country, job.link, "$500+",
      "Postulado", "Automated">>

\* C15: every row appended has exactly nine fields in the order sequence
\* number, date, job title, company, region, posting link, salary text,
\* status string, free-text note; title, company, region and link are those
\* of the attempted posting, and the region is the one whose discovery
\* produced the posting.
C15_NineFieldsInOrder ==
    /\ \A i \in 1..Len(ledger) :
          /\ Len(ledger[i]) = 9
          /\ \E n \in 1..MAX_APPLICATIONS_PER_DAY, job \in GoodCards,
                country \in 1..Len(TARGET_COUNTRIES) :
                ledger[i] = NineFields(n, job, TARGET_COUNTRIES[country])
    /\ attempt.append = "ok" =>
          /\ Appended = <<NineFields(attempt.countBefore + 1, attempt.job,
                                     attempt.country)>>
          /\ attempt.country = lastSearch.country
          /\ attempt.country = TARGET_COUNTRIES[ci]
          /\ \E k \in 1..Len(lastSearch.page) :
                lastSearch.page[k] = attempt.job

\* The row of the second region's second kind of posting has been appended
\* after an earlier row
C15_Witness ==
    /\ attempt.append = "ok"
    /\ attempt.country = TARGET_COUNTRIES[2]
    /\ attempt.job = P2
    /\ Len(ledger) = 2
    /\ ledger[2][5] = TARGET_COUNTRIES[2]
    /\ ledger[2][6] = P2.link

\* Whatever handle_application_form met, the attempt is FormHandled and not
\* failed by it
C16_FormNeverFails ==
    attempt.form # "none" =>
        /\ Len(attempt.path) >= 3
        /\ attempt.path[3] = "FormHandled"
        /\ attempt.failure \notin {"apply_form:" \o o : o \in FormOutcomes}
        /\ pc \in {"apply_submit", "apply_log", "apply_incr", "apply_return"}

\* The step after the form handling is the lookup of the submit control
C16_ThenSubmitLookup ==
    pc = "apply_form" =>
        /\ pc' = "apply_submit"
        /\ attempt'.state = "FormHandled"
        /\ attempt'.result = "none"
        /\ attempt'.form \in FormOutcomes

\* C16: the form-handling step never causes a Failed transition, whether
\* the form has no inputs, the lookup of the inputs fails or an input
\* rejects the typed value; the attempt always goes on to the lookup of the
\* submit control.
C16_FormStepCannotFail == []C16_FormNeverFails /\ [][C16_ThenSubmitLookup]_vars

\* The lookup of the inputs raised and the attempt is at the submit lookup
C16_Witness ==
    /\ pc = "apply_submit"
    /\ attempt.form = "lookup_raises"
    /\ attempt.state = "FormHandled"

\* run() has returned
Done == pc = "done"

\* Once run() has returned, a driver that was created has been quit, once
C17_QuitOnce ==
    /\ calls.quit <= 1
    /\ driver = "quit" <=> calls.quit = 1
    /\ Done /\ calls.quit = 0 =>
           driver = "none" /\ exc = "initialize_driver"
    /\ driver = "quit" => Done

\* No step is taken after the quit
C17_NothingAfterQuit == driver # "quit" /\ ~Done

\* C17: every run eventually terminates, by completing the loop, reaching
\* the quota or a fatal failure; on every exit path on which the driver was
\* created it is quit exactly once, and no driver operation follows the
\* quit.
C17_TerminatesAndQuits ==
    /\ <>Done
    /\ []C17_QuitOnce
    /\ [][C17_NothingAfterQuit]_vars

\* The run ended on the failure of set_page_load_timeout, after the driver
\* had been created, and the driver has been quit
C17_Witness ==
    /\ Done
    /\ exc = "initialize_driver"
    /\ driver = "quit"
    /\ calls.quit = 1

\* The positions, among the first ten cards of the page the driver showed,
\* of the cards whose three fields could be read
ReadableFirstTen ==
    {i \in 1..Len(lastSearch.page) :
        /\ i <= 10
        /\ lastSearch.page[i].title # Unreadable
        /\ lastSearch.page[i].company # Unreadable
        /\ lastSearch.page[i].link # Unreadable}

\* The k-th of these positions, in page order
KthReadable(k) ==
    CHOOSE i \in ReadableFirstTen :
        Cardinality({j \in ReadableFirstTen : j < i}) = k - 1

\* C18: discovery for one region returns exactly the listings, in page
\* order, among the first 10 located cards whose title, company and link
\* could all be read; an unreadable card is skipped without stopping the
\* scan, and cards beyond the tenth are never included, even when earlier
\* cards were skipped.
C18_FirstTenReadable ==
    pc = "for_job" /\ ji = 0 /\ lastSearch.getOk =>
        /\ Len(jobs) = Cardinality(ReadableFirstTen)
        /\ \A k \in 1..Len(jobs) : jobs[k] = lastSearch.page[KthReadable(k)]

\* A page of more than ten cards whose second card is unreadable, whose
\* third is of the second kind and whose eleventh is readable: nine listings
\* are returned, the second kind first but one
C18_Witness ==
    /\ pc = "for_job" /\ ji = 0 /\ lastSearch.getOk
    /\ Len(lastSearch.page) > 10
    /\ ~Readable(lastSearch.page[2])
    /\ lastSearch.page[3] = P2
    /\ Readable(lastSearch.page[11])
    /\ Len(jobs) = 9
    /\ jobs[2] = P2

\* An apply_to_job call is in progress
Attempting == attempt.state # "None"

\* The k-th discovery call is for the k-th configured region, and an attempt
\* is on a posting of the list the last discovery call returned
C19_InOrder ==
    /\ calls.search <= Len(TARGET_COUNTRIES)
    /\ calls.search > 0 => lastSearch.country = TARGET_COUNTRIES[calls.search]
    /\ Attempting =>
           /\ calls.search > 0
           /\ attempt.country = lastSearch.country
           /\ ji \in 1..Len(jobs)
           /\ attempt.job = jobs[ji]
           /\ calls.apply >= ji
    /\ pc = "search" => ~Attempting /\ ji = Len(jobs)

\* A discovery call starts only when no attempt is in progress and every
\* posting of the current list has had its turn; an attempt starts only
\* when none is in progress, on the posting after the last one taken
C19_OneAtATime ==
    /\ calls'.search # calls.search =>
           /\ ~Attempting /\ ~Attempting'
           /\ ji = Len(jobs)
           /\ calls'.search = calls.search + 1
           /\ ji' = 0
    /\ calls'.apply # calls.apply =>
           /\ ~Attempting /\ Attempting'
           /\ ji' = ji + 1
           /\ UNCHANGED <<jobs, lastSearch>>
    /\ Attempting /\ Attempting' => UNCHANGED <<jobs, ji, ci, lastSearch>>

\* C19: regions are visited in the configured order, each at most once; the
\* discovery call for a region precedes every attempt on its postings,
\* postings are attempted in the order discovery returned them, and
\* discovery for the next region starts only after the attempts on the
\* current region's postings have all resolved, so at most one attempt is
\* in a non-terminal state at any time.
C19_RegionsAndPostingsInOrder == []C19_InOrder /\ [][C19_OneAtATime]_vars

\* The second posting of the second region's list is being attempted, after
\* two postings of the first region
C19_Witness ==
    /\ Attempting
    /\ attempt.country = TARGET_COUNTRIES[2]
    /\ calls.search = 2
    /\ ji = 2
    /\ jobs = <<P2, P1>>
    /\ calls.apply = 4

\* C20: the row of the k-th attempt to reach Submitted carries the number k,
\* the value applications_count takes after that attempt, so a failed
\* ledger write leaves a gap and later numbers are not shifted; between
\* attempts the ledger never holds more rows than applications_count.
C20_SeqNoIsSubmissionRank ==
    /\ Attempting =>
          \A r \in 1..Len(Appended) :
              /\ SeqNo(Appended[r]) = calls.submit
              /\ SeqNo(Appended[r]) = attempt.countBefore + 1
    /\ \A i \in 1..Len(ledger) :
          /\ SeqNo(ledger[i]) >= i
          /\ SeqNo(ledger[i]) <= calls.submit
    /\ attempt.result = "True" => applications_count = calls.submit
    /\ ~Attempting =>
          /\ applications_count = calls.submit
          /\ Len(ledger) <= applications_count

\* The first submitted attempt's ledger write failed and the second one's
\* row is numbered 2
C20_Witness ==
    /\ ~Attempting
    /\ applications_count = 2
    /\ calls.log = 2
    /\ Len(ledger) = 1
    /\ SeqNo(ledger[1]) = 2

====
